---- MODULE Spec2Model ----
(***************************************************************************)
(* 2D Ising lattice, Metropolis Monte Carlo                                *)
(* (basic_phase_separation_modelling/ising_model.ipynb).                   *)
(*                                                                         *)
(* An array is a function from cells <<row, col>> to its entries; arrays   *)
(* live in a heap and are named by their index in it, so that in-place     *)
(* mutation, np.copy and plain assignment are told apart.                  *)
(* A ratio is the rational ratio / RatioDen; a temperature is an integer   *)
(* (only its sign and its being zero decide what the code does with it).   *)
(***************************************************************************)
EXTENDS Integers, Sequences, FiniteSets, TLC

VARIABLES
    N,                \* initialize_lattice / simulate_phase_separation: N
    ratio,            \* the ratio argument, as a numerator over RatioDen
    randomize,        \* initialize_lattice: randomize
    heap,             \* the arrays allocated so far
    lattice,          \* the live lattice (an index of heap; 0 before there is one)
    temperature,      \* metropolis_step: temperature
    pc,               \* where control is
    caller,           \* who called metropolis_step: "driver" or "simulate"
    err,              \* the exception that ended the run ("none" if none)
    k,                \* metropolis_step: trials done in this sweep (the loop's _)
    delta_E,          \* metropolis_step: delta_E of the last trial
    flipped,          \* metropolis_step: whether the last trial negated its spin
    observe,          \* whether delta_E and flipped are kept after a trial
                      \* (they are dead then: the next trial overwrites them)
    temperatures,     \* simulate_phase_separation: temperatures
    steps,            \* simulate_phase_separation: steps
    output_interval,  \* simulate_phase_separation: output_interval
    t,                \* index of the temperature being run
    step,             \* the step loop's variable
    energy,           \* the running energy list
    lattice_states,   \* the running snapshot list (indices of heap)
    final_states,     \* dict temperature -> lattice
    animations,       \* dict temperature -> snapshot list
    energies          \* dict temperature -> energy list

vars == <<N, ratio, randomize, heap, lattice, temperature, pc, caller, err,
          k, delta_E, flipped, observe, temperatures, steps, output_interval,
          t, step, energy, lattice_states, final_states, animations, energies>>

simVars == <<temperatures, steps, output_interval, t, step, energy,
             lattice_states, final_states, animations, energies>>

trialVars == <<k, delta_E, flipped>>

(***************************************************************************)
(* Bounds                                                                  *)
(***************************************************************************)
MaxN == 3          \* largest lattice size given to initialize_lattice alone
SweepMaxN == 2     \* largest lattice size swept by direct metropolis_step calls
SimMaxN == 2       \* largest lattice size given to simulate_phase_separation
RatioDen == 4      \* ratios are the multiples of 1/RatioDen
MaxSteps == 2      \* largest step count given to simulate_phase_separation
MaxInterval == 2   \* largest output interval given to simulate_phase_separation

\* Ratio numerators: -1 and RatioDen + 1 are the ratios just outside [0, 1].
Ratios == (0 - 1)..(RatioDen + 1)
ValidRatio(rn) == 0 <= rn /\ rn <= RatioDen

Cells(n) == (0..(n - 1)) \X (0..(n - 1))

Spins == {0 - 1, 1}

(***************************************************************************)
(* initialize_lattice                                                      *)
(***************************************************************************)
\* Python's int() of the float num / den: truncation toward zero.
IntTrunc(num, den) ==
    IF num >= 0 THEN num \div den ELSE 0 - ((0 - num) \div den)

Max0(x) == IF x > 0 THEN x ELSE 0

num_spins(n) == n * n

\* Round half to even, of the non-negative num / den (Python's round).
RoundHalfEven(num, den) ==
    LET q == num \div den
        r == num % den
    IN  IF 2 * r < den THEN q
        ELSE IF 2 * r > den THEN q + 1
        ELSE IF q % 2 = 0 THEN q ELSE q + 1

\* Mutant of num_blue: round(num_spins * ratio) in place of int(...).
num_blue_rounded(n, rn) ==
    IF rn >= 0 THEN RoundHalfEven(num_spins(n) * rn, RatioDen)
    ELSE 0 - RoundHalfEven(num_spins(n) * (0 - rn), RatioDen)

\* num_blue = int(num_spins * ratio)
num_blue(n, rn) == IntTrunc(num_spins(n) * rn, RatioDen)

\* num_red = num_spins - num_blue
num_red(n, rn) == num_spins(n) - num_blue(n, rn)

\* len([1] * num_blue + [-1] * num_red): a list times a negative count is empty.
SpinsLen(n, rn) == Max0(num_blue(n, rn)) + Max0(num_red(n, rn))

CountOf(a, n, v) == Cardinality({c \in Cells(n) : a[c] = v})

\* np.random.shuffle(spins); spins.reshape((N, N)): every arrangement of the
\* num_blue entries +1 and the num_red entries -1 over the N x N cells.
Shuffled(n, rn) ==
    {a \in [Cells(n) -> Spins] : CountOf(a, n, 1) = Max0(num_blue(n, rn))}

\* lattice = np.ones((N, N)); lattice[:, :N//2] = -1
SplitPattern(n) == [c \in Cells(n) |-> IF c[2] < n \div 2 THEN 0 - 1 ELSE 1]

\* The arrays initialize_lattice can return; reshape raises ValueError when the
\* list does not hold N * N entries, and then nothing is returned.
initialize_lattice(n, rn, rand) ==
    IF rand
    THEN IF SpinsLen(n, rn) = num_spins(n) THEN Shuffled(n, rn) ELSE {}
    ELSE {SplitPattern(n)}

(***************************************************************************)
(* calculate_energy                                                        *)
(***************************************************************************)
\* Mutant of neighbors: no wraparound, a site past the edge counts for nothing.
neighbors_open(a, n, r, c) ==
    LET at(x, y) == IF x \in 0..(n - 1) /\ y \in 0..(n - 1) THEN a[<<x, y>>] ELSE 0
    IN  at(r + 1, c) + at(r - 1, c) + at(r, c + 1) + at(r, c - 1)

\* lattice[(i+1) % N, j] + lattice[(i-1) % N, j] + lattice[i, (j+1) % N] + lattice[i, (j-1) % N]
neighbors(a, n, r, c) ==
    a[<<(r + 1) % n, c>>] + a[<<(r - 1) % n, c>>] +
    a[<<r, (c + 1) % n>>] + a[<<r, (c - 1) % n>>]

\* The double loop, row-major: cell number m is (m \div n, m % n).
RECURSIVE EnergyLoop(_, _, _)
EnergyLoop(a, n, m) ==
    IF m = 0 THEN 0
    ELSE LET r == (m - 1) \div n
             c == (m - 1) % n
         IN  EnergyLoop(a, n, m - 1) + (0 - a[<<r, c>>]) * neighbors(a, n, r, c)

\* Mutant of Halve: the sum over cells returned as it is, each pair counted twice.
Halve_forgotten(x) == x

\* x / 2.0: exact for an even x; an odd x gives a half-integer, kept as a pair.
Halve(x) == IF x % 2 = 0 THEN x \div 2 ELSE <<x, 2>>

calculate_energy(a, n) == Halve(EnergyLoop(a, n, n * n))

(***************************************************************************)
(* metropolis_step                                                         *)
(***************************************************************************)
\* delta_E = 2 * spin * neighbors
DeltaE(a, n, r, c) == 2 * a[<<r, c>>] * neighbors(a, n, r, c)

\* Mutant of Quotient: 0 / 0 taken to be 0 rather than nan.
Quotient_zero_over_zero(d, T) ==
    IF T = 0
    THEN IF d = 0 THEN "zero" ELSE IF 0 - d > 0 THEN "+inf" ELSE "-inf"
    ELSE IF (0 - d) * T > 0 THEN "pos"
         ELSE IF (0 - d) * T < 0 THEN "neg" ELSE "zero"

\* -delta_E / temperature in IEEE arithmetic, by class: numpy divides by zero
\* without raising (x / 0 is an infinity of x's sign, 0 / 0 is nan).
Quotient(d, T) ==
    IF T = 0
    THEN IF d = 0 THEN "nan" ELSE IF 0 - d > 0 THEN "+inf" ELSE "-inf"
    ELSE IF (0 - d) * T > 0 THEN "pos"
         ELSE IF (0 - d) * T < 0 THEN "neg" ELSE "zero"

\* np.exp, by class of its argument.
NpExp(q) ==
    CASE q = "nan"  -> "nan"
      [] q = "-inf" -> "0"
      [] q = "neg"  -> "(0,1)"
      [] q = "zero" -> "1"
      [] q = "pos"  -> ">1"
      [] q = "+inf" -> "inf"

\* The values np.random.rand() < e can take, rand() being any float of [0, 1):
\* a comparison with nan is False.
RandLess(e) ==
    CASE e = "nan"   -> {FALSE}
      [] e = "0"     -> {FALSE}
      [] e = "(0,1)" -> {TRUE, FALSE}
      [] e = "1"     -> {TRUE}
      [] e = ">1"    -> {TRUE}
      [] e = "inf"   -> {TRUE}

\* delta_E < 0 or np.random.rand() < np.exp(-delta_E / temperature)
Accepts(d, T) == IF d < 0 THEN {TRUE} ELSE RandLess(NpExp(Quotient(d, T)))

\* Mutant of Negate: lattice[i] *= -1, the whole row negated.
Negate_row(a, r, c) == [x \in DOMAIN a |-> IF x[1] = r THEN (0 - 1) * a[x] ELSE a[x]]

\* lattice[i, j] *= -1
Negate(a, r, c) == [a EXCEPT ![<<r, c>>] = (0 - 1) * @]

Live == heap[lattice]

\* One pass of the loop body: a site, its delta_E, the test, the flip in place.
Trial ==
    /\ pc = "sweep"
    /\ k < N * N
    /\ \E r \in 0..(N - 1), c \in 0..(N - 1) :
         LET d == DeltaE(Live, N, r, c)
         IN  \E acc \in Accepts(d, temperature) :
               /\ heap' = IF acc THEN [heap EXCEPT ![lattice] = Negate(@, r, c)]
                                 ELSE heap
               /\ IF observe
                  THEN delta_E' = d /\ flipped' = acc
                  ELSE UNCHANGED <<delta_E, flipped>>
    /\ k' = k + 1
    /\ UNCHANGED <<N, ratio, randomize, lattice, temperature, pc, caller, err,
                   observe, simVars>>

\* return lattice, after N**2 trials: the array passed in, not a copy.
MetropolisReturn ==
    /\ pc = "sweep"
    /\ k = N * N
    /\ pc' = IF caller = "simulate" THEN "sim_record" ELSE "returned"
    /\ UNCHANGED <<N, ratio, randomize, heap, lattice, temperature, caller, err,
                   trialVars, observe, simVars>>

(***************************************************************************)
(* A driver calling initialize_lattice and metropolis_step directly        *)
(***************************************************************************)
Initialize(n, rn, rand) ==
    /\ pc = "start"
    /\ N' = n /\ ratio' = rn /\ randomize' = rand
    /\ IF initialize_lattice(n, rn, rand) = {}
       THEN /\ pc' = "raised" /\ err' = "ValueError"
            /\ UNCHANGED <<heap, lattice>>
       ELSE /\ \E a \in initialize_lattice(n, rn, rand) :
                 heap' = Append(heap, a)
            /\ lattice' = Len(heap) + 1
            /\ pc' = "initialized"
            /\ err' = err
    /\ UNCHANGED <<temperature, caller, trialVars, observe, simVars>>

MetropolisCall(T) ==
    /\ pc \in {"initialized", "returned"}
    /\ temperature' = T
    /\ k' = 0
    /\ pc' = "sweep"
    /\ UNCHANGED <<N, ratio, randomize, heap, lattice, caller, err,
                   delta_E, flipped, observe, simVars>>

InitDriver(obs) ==
    /\ N = 0 /\ ratio = 0 /\ randomize = TRUE
    /\ heap = << >> /\ lattice = 0
    /\ temperature = 0
    /\ pc = "start" /\ caller = "driver" /\ err = "none"
    /\ k = 0 /\ delta_E = 0 /\ flipped = FALSE
    /\ observe = obs
    /\ temperatures = << >> /\ steps = 0 /\ output_interval = 1
    /\ t = 0 /\ step = 0
    /\ energy = << >> /\ lattice_states = << >>
    /\ final_states = << >> /\ animations = << >> /\ energies = << >>

\* initialize_lattice alone, on every size, ratio and mode.
InitInit == InitDriver(TRUE)

NextInit == \E n \in 1..MaxN, rn \in Ratios, rand \in BOOLEAN : Initialize(n, rn, rand)

SpecInit == InitInit /\ [][NextInit]_vars

\* Sweeps by direct calls, at a negative, a zero and a positive temperature.
SweepTemps == {0 - 1, 0, 1}

\* The ratio of the lattices swept: the default, 0.5.
SweepRatios == {RatioDen \div 2}

InitSweep == InitDriver(TRUE)

NextSweep ==
    \/ \E n \in 1..SweepMaxN, rn \in SweepRatios, rand \in BOOLEAN : Initialize(n, rn, rand)
    \/ \E T \in SweepTemps : MetropolisCall(T)
    \/ Trial
    \/ MetropolisReturn

SpecSweep == InitSweep /\ [][NextSweep]_vars

\* initialize_lattice(4, ratio=1.0), then one metropolis_step at T = 1.0.
InitScenario == InitDriver(FALSE)

NextScenario ==
    \/ Initialize(4, RatioDen, TRUE)
    \/ (pc = "initialized" /\ MetropolisCall(1))
    \/ Trial
    \/ MetropolisReturn

SpecScenario == InitScenario /\ [][NextScenario]_vars

(***************************************************************************)
(* simulate_phase_separation                                               *)
(***************************************************************************)
\* Mutant of np_copy: np.zeros_like(lattice), a new array of the same shape
\* that does not take the entries over.
np_zeros_like(a) == [x \in DOMAIN a |-> 0]

\* np.copy(lattice): a new array holding the same entries.
np_copy(a) == a

\* d[key] = v
Put(d, key, v) == [x \in DOMAIN d \cup {key} |-> IF x = key THEN v ELSE d[x]]

\* for temperature in temperatures: the next temperature's run begins with
\* lattice = initialize_lattice(N, ratio=ratio); energy = []; lattice_states = []
SimNextTemperature ==
    /\ pc = "sim_for_temperature"
    /\ t < Len(temperatures)
    /\ t' = t + 1
    /\ temperature' = temperatures[t + 1]
    /\ IF initialize_lattice(N, ratio, TRUE) = {}
       THEN /\ pc' = "raised" /\ err' = "ValueError"
            /\ UNCHANGED <<heap, lattice, energy, lattice_states, step>>
       ELSE /\ \E a \in initialize_lattice(N, ratio, TRUE) :
                 heap' = Append(heap, a)
            /\ lattice' = Len(heap) + 1
            /\ energy' = << >>
            /\ lattice_states' = << >>
            /\ step' = 0
            /\ pc' = "sim_for_step"
            /\ err' = err
    /\ UNCHANGED <<N, ratio, randomize, caller, trialVars, observe, temperatures,
                   steps, output_interval, final_states, animations, energies>>

\* for step in range(steps): lattice = metropolis_step(lattice, temperature)
SimStep ==
    /\ pc = "sim_for_step"
    /\ step < steps
    /\ k' = 0
    /\ pc' = "sweep"
    /\ UNCHANGED <<N, ratio, randomize, heap, lattice, temperature, caller, err,
                   delta_E, flipped, observe, simVars>>

\* The rest of the loop body, once metropolis_step has returned: the energy and
\* a copy of the lattice are appended; then, on a step that is a multiple of
\* output_interval, clear_output(wait=True) is called: the notebook imports
\* HTML and display from IPython.display and binds no clear_output, so the call
\* raises NameError.
SimRecord ==
    /\ pc = "sim_record"
    /\ energy' = Append(energy, calculate_energy(Live, N))
    /\ heap' = Append(heap, np_copy(Live))
    /\ lattice_states' = Append(lattice_states, Len(heap) + 1)
    /\ IF step % output_interval = 0
       THEN pc' = "raised" /\ err' = "NameError" /\ step' = step
       ELSE pc' = "sim_for_step" /\ err' = err /\ step' = step + 1
    /\ UNCHANGED <<N, ratio, randomize, lattice, temperature, caller, trialVars,
                   observe, temperatures, steps, output_interval, t,
                   final_states, animations, energies>>

\* After the step loop: the three dictionaries get this temperature's entries;
\* final_states holds the live array itself.
SimStore ==
    /\ pc = "sim_for_step"
    /\ step >= steps
    /\ final_states' = Put(final_states, temperature, lattice)
    /\ animations' = Put(animations, temperature, lattice_states)
    /\ energies' = Put(energies, temperature, energy)
    /\ pc' = "sim_for_temperature"
    /\ UNCHANGED <<N, ratio, randomize, heap, lattice, temperature, caller, err,
                   trialVars, observe, temperatures, steps, output_interval, t,
                   step, energy, lattice_states>>

\* return final_states, animations, energies
SimReturn ==
    /\ pc = "sim_for_temperature"
    /\ t >= Len(temperatures)
    /\ pc' = "sim_returned"
    /\ UNCHANGED <<N, ratio, randomize, heap, lattice, temperature, caller, err,
                   trialVars, observe, simVars>>

\* The temperature lists given to simulate_phase_separation.
TempLists == {<<1>>, <<1, 2>>, <<0>>, <<0 - 1, 1>>}

\* The ratios given to it: the default 0.5 (RatioDen \div 2 over RatioDen) and 1.0.
SimRatios == {RatioDen \div 2, RatioDen}

Init ==
    /\ N \in 1..SimMaxN
    /\ ratio \in SimRatios
    /\ randomize = TRUE
    /\ heap = << >> /\ lattice = 0
    /\ temperature = 0
    /\ pc = "sim_for_temperature" /\ caller = "simulate" /\ err = "none"
    /\ k = 0 /\ delta_E = 0 /\ flipped = FALSE
    /\ observe = FALSE
    /\ temperatures \in TempLists
    /\ steps \in 0..MaxSteps
    /\ output_interval \in 1..MaxInterval
    /\ t = 0 /\ step = 0
    /\ energy = << >> /\ lattice_states = << >>
    /\ final_states = << >> /\ animations = << >> /\ energies = << >>

Next ==
    \/ SimNextTemperature
    \/ SimStep
    \/ Trial
    \/ MetropolisReturn
    \/ SimRecord
    \/ SimStore
    \/ SimReturn

Spec == Init /\ [][Next]_vars

(***************************************************************************)
(* Properties                                                              *)
(***************************************************************************)
IsLattice(a, n) == DOMAIN a = Cells(n) /\ \A c \in Cells(n) : a[c] \in Spins

AllPlus(a, n) == \A c \in Cells(n) : a[c] = 1

RandomModeDone == pc = "initialized" /\ randomize /\ ValidRatio(ratio)

\* C1, as stated: in random mode, for a ratio of [0, 1], the grid is N x N and
\* holds exactly round(N^2 * ratio) cells +1 and N^2 - round(N^2 * ratio) cells -1.
C1_RoundedCount ==
    RandomModeDone =>
        /\ IsLattice(Live, N)
        /\ CountOf(Live, N, 1) = RoundHalfEven(N * N * ratio, RatioDen)
        /\ CountOf(Live, N, 0 - 1) = N * N - RoundHalfEven(N * N * ratio, RatioDen)

\* C1, amended: in random mode, for a ratio of [0, 1], the grid is N x N and
\* holds exactly int(N^2 * ratio) cells +1, the product truncated toward zero
\* (its floor), and N^2 - int(N^2 * ratio) cells -1, whatever the shuffle picks.
C1_TruncatedCount ==
    RandomModeDone =>
        /\ IsLattice(Live, N)
        /\ CountOf(Live, N, 1) = (N * N * ratio) \div RatioDen
        /\ CountOf(Live, N, 0 - 1) = N * N - ((N * N * ratio) \div RatioDen)

\* C1, witness: a random 3 x 3 lattice whose N^2 * ratio is no integer.
C1_Witness ==
    RandomModeDone /\ N = 3 /\ (N * N * ratio) % RatioDen # 0

\* C2, as stated: for any lattice (every N >= 1) and any cell, calculate_energy
\* after negating that one spin minus calculate_energy before equals the
\* delta_E metropolis_step computes for the cell before the flip.
C2_DeltaIsEnergyChange ==
    lattice # 0 =>
        \A c \in Cells(N) :
            calculate_energy(Negate(Live, c[1], c[2]), N) - calculate_energy(Live, N)
                = DeltaE(Live, N, c[1], c[2])

\* C3: a snapshot, once appended, keeps its entries through every later step
\* of the run.
C3_SnapshotsFrozen ==
    [][\A m \in 1..Len(lattice_states) :
          /\ m <= Len(lattice_states')
          /\ lattice_states'[m] = lattice_states[m]
          => heap'[lattice_states'[m]] = heap[lattice_states[m]]]_vars

Elements(seq) == {seq[m] : m \in 1..Len(seq)}

ValidInput ==
    /\ N >= 1
    /\ steps >= 1
    /\ output_interval >= 1
    /\ ValidRatio(ratio)
    /\ Len(temperatures) >= 1
    /\ Cardinality(Elements(temperatures)) = Len(temperatures)
    /\ \A T \in Elements(temperatures) : T > 0

\* C4, as stated: on a valid input simulate_phase_separation returns (no
\* exception ends it), and what it returns holds, for each temperature given, a
\* final lattice, an energy list of exactly steps entries and a snapshot list
\* of exactly steps entries.
C4_ReturnsFullSeries ==
    ValidInput =>
        /\ err = "none"
        /\ pc = "sim_returned" =>
              \A T \in Elements(temperatures) :
                  /\ T \in DOMAIN final_states
                  /\ T \in DOMAIN energies /\ Len(energies[T]) = steps
                  /\ T \in DOMAIN animations /\ Len(animations[T]) = steps

\* C5: every recorded snapshot, put through calculate_energy, gives the energy
\* recorded at the same index, in the running lists and in the stored ones.
C5_SnapshotEnergyAgrees ==
    /\ Len(lattice_states) = Len(energy)
    /\ \A m \in 1..Len(energy) :
          calculate_energy(heap[lattice_states[m]], N) = energy[m]
    /\ \A T \in DOMAIN energies :
          /\ T \in DOMAIN animations
          /\ Len(animations[T]) = Len(energies[T])
          /\ \A m \in 1..Len(energies[T]) :
                calculate_energy(heap[animations[T][m]], N) = energies[T][m]

\* C5, witness: a step has been recorded, its snapshot being the swept lattice.
C5_Witness ==
    /\ Len(energy) >= 1
    /\ N = 2
    /\ heap[lattice_states[1]] = Live
    /\ energy[1] # 0

InvalidConfig ==
    \/ N <= 0
    \/ ~ValidRatio(ratio)
    \/ steps <= 0
    \/ \E T \in Elements(temperatures) : T < 0

\* C6, as stated: on an invalid configuration the operation fails at entry:
\* no lattice is created, no trial is made and nothing is recorded or stored.
C6_FailsAtEntry ==
    InvalidConfig =>
        /\ heap = << >> /\ lattice = 0
        /\ pc \in {"sim_for_temperature", "raised"}
        /\ energy = << >> /\ lattice_states = << >>
        /\ final_states = << >> /\ animations = << >> /\ energies = << >>
        /\ pc = "sim_for_temperature" => t = 0

\* C7: in a trial at temperature 0 a spin is negated only where delta_E < 0,
\* a trial whose delta_E is 0 or more leaves the lattice (and so its energy)
\* as it is, and a trial that negates a spin lowers the total energy.
C7_ZeroTemperature ==
    [][(pc = "sweep" /\ temperature = 0 /\ k' = k + 1) =>
          /\ delta_E' >= 0 => (~flipped' /\ heap' = heap)
          /\ flipped' => delta_E' < 0
          /\ heap' # heap =>
                \E c \in Cells(N) :
                    /\ DeltaE(Live, N, c[1], c[2]) < 0
                    /\ \A x \in Cells(N) :
                          Live'[x] = IF x = c THEN 0 - Live[x] ELSE Live[x]
          /\ heap' # heap => calculate_energy(Live', N) < calculate_energy(Live, N)]_vars

\* C7, witness: a trial at temperature 0 with delta_E = 0 has been rejected.
C7_Witness ==
    pc = "sweep" /\ temperature = 0 /\ k >= 1 /\ delta_E = 0 /\ ~flipped

\* C8: initialize_lattice(4, ratio=1.0) has energy -32, and after one
\* metropolis_step at T = 1.0 the energy is at least -32, whatever sites and
\* draws the 16 trials take.
C8_NotBelowGround ==
    /\ pc = "initialized" => calculate_energy(Live, N) = 0 - 32
    /\ pc = "returned" => calculate_energy(Live, N) >= 0 - 32

\* C8, witness: the sweep is over and it has raised the energy.
C8_Witness ==
    pc = "returned" /\ N = 4 /\ temperature = 1 /\ calculate_energy(Live, N) > 0 - 32

\* C9: calculate_energy of the N x N lattice of +1 is -2 * N^2.
C9_AllPlusEnergy ==
    (pc = "initialized" /\ AllPlus(Live, N)) =>
        calculate_energy(Live, N) = 0 - 2 * N * N

\* C9, witness: the 3 x 3 lattice of +1.
C9_Witness ==
    pc = "initialized" /\ N = 3 /\ AllPlus(Live, N)

\* C10: the live lattice is always N x N with every cell +1 or -1, and a
\* trial leaves it as it is or negates exactly one cell.
C10_LatticeShape ==
    [][/\ lattice' # 0 => IsLattice(heap'[lattice'], N')
       /\ (pc = "sweep" /\ k' = k + 1) =>
             /\ N' = N /\ lattice' = lattice
             /\ \/ Live' = Live
                \/ \E c \in Cells(N) :
                      \A x \in Cells(N) :
                          Live'[x] = IF x = c THEN 0 - Live[x] ELSE Live[x]]_vars

\* C10, witness: a lattice of the split pattern has been swept and has changed.
C10_Witness ==
    pc = "returned" /\ ~randomize /\ N = 2 /\ Live # SplitPattern(N)

====
